---- MODULE Spec2Model ----
(***************************************************************************)
(* AnimalChess (phpcyy/AnimalChess): the rules engine of the React App     *)
(* component -- topology, move generator, handleMove, handleCellClick,     *)
(* initGame, toggleGameMode and the automated player's turn (runAITurn).   *)
(*                                                                         *)
(* React state is modelled as variables.  A handler reads the state of the *)
(* render that created it (its closure); for a click that is the current   *)
(* state, for the continuation of runAITurn it is the state captured when  *)
(* the effect started.  setGameState(prev => ...) reads the current state. *)
(***************************************************************************)
EXTENDS Integers, Sequences, FiniteSets, TLC

VARIABLES gameMode,       \* 'PVE' | 'PVP'
          gameState,      \* GameState record
          selectedIndex,  \* number | null
          isProcessing,   \* boolean
          aiThinking,     \* boolean
          genAI,          \* geminiService: the client exists (an API key is set)
          aiTasks,        \* pending continuations of runAITurn (closures)
          effectDue,      \* the runAITurn effect is scheduled for the last render
          applied,        \* history: number of committed handleMove calls
          lastAct         \* history: the last committed handleMove call of this game

vars == <<gameMode, gameState, selectedIndex, isProcessing, aiThinking,
          genAI, aiTasks, effectDue, applied, lastAct>>

----------------------------------------------------------------------------
(* Bounds of the model *)

\* committed actions explored from an initial state
MaxActions == 3
\* shuffles explored by initGame
NumDecks == 1
\* cells the participants act on: the first NumCells of ActedCells
NumCells == 6

----------------------------------------------------------------------------
(* constants.ts, types.ts *)

BOARD_SIZE == 4
TOTAL_CELLS == 17
CENTER_INDEX == 16
HISTORY_LIMIT == 50

NULL == "null"
NoIndex == 0 - 1

RED == "RED"
BLUE == "BLUE"
DRAW == "DRAW"
PlayerColor == {RED, BLUE}

ELEPHANT == "ELEPHANT"
LION == "LION"
TIGER == "TIGER"
LEOPARD == "LEOPARD"
WOLF == "WOLF"
DOG == "DOG"
CAT == "CAT"
RAT == "RAT"

\* Object.values(AnimalType), in declaration order
AnimalType == <<ELEPHANT, LION, TIGER, LEOPARD, WOLF, DOG, CAT, RAT>>

Kinds == {AnimalType[k] : k \in 1..Len(AnimalType)}

ANIMAL_RANKS == [t \in Kinds |->
                   CASE t = ELEPHANT -> 8
                     [] t = LION     -> 7
                     [] t = TIGER    -> 6
                     [] t = LEOPARD  -> 5
                     [] t = WOLF     -> 4
                     [] t = DOG      -> 3
                     [] t = CAT      -> 2
                     [] t = RAT      -> 1]

\* a Piece; its id is determined by (color, type)
Piece(color, type) == [type |-> type, color |-> color, rank |-> ANIMAL_RANKS[type]]

\* piece: null
NoPiece == [type |-> NULL, color |-> NULL, rank |-> 0]

\* INITIAL_DECK[i], i in 0..15: for each type a red piece, then a blue piece
INITIAL_DECK == [i \in 0..15 |->
                   Piece(IF i % 2 = 0 THEN RED ELSE BLUE, AnimalType[(i \div 2) + 1])]

Indices == 0..(TOTAL_CELLS - 1)

OtherColor(c) == IF c = RED THEN BLUE ELSE RED

----------------------------------------------------------------------------
(* Topology *)

InnerCells == {5, 6, 9, 10}

Abs(n) == IF n < 0 THEN 0 - n ELSE n

isAdjacentFromCenterOnly(idx1, idx2) ==
  IF idx1 = CENTER_INDEX THEN idx2 \in InnerCells
  ELSE LET x1 == idx1 % BOARD_SIZE
           y1 == idx1 \div BOARD_SIZE
           x2 == idx2 % BOARD_SIZE
           y2 == idx2 \div BOARD_SIZE
           dx == Abs(x1 - x2)
           dy == Abs(y1 - y2)
       IN (dx = 1 /\ dy = 0) \/ (dx = 0 /\ dy = 1)

isAdjacentWraps(idx1, idx2) ==
  IF idx1 = CENTER_INDEX THEN idx2 \in InnerCells
  ELSE IF idx2 = CENTER_INDEX THEN idx1 \in InnerCells
  ELSE Abs(idx1 - idx2) = 1 \/ Abs(idx1 - idx2) = BOARD_SIZE

isAdjacent(idx1, idx2) ==
  IF idx1 = CENTER_INDEX THEN idx2 \in InnerCells
  ELSE IF idx2 = CENTER_INDEX THEN idx1 \in InnerCells
  ELSE LET x1 == idx1 % BOARD_SIZE
           y1 == idx1 \div BOARD_SIZE
           x2 == idx2 % BOARD_SIZE
           y2 == idx2 \div BOARD_SIZE
           dx == Abs(x1 - x2)
           dy == Abs(y1 - y2)
       IN (dx = 1 /\ dy = 0) \/ (dx = 0 /\ dy = 1)

\* the neighbors array built inside getValidMoves, in push order
neighbors(index) ==
  IF index # CENTER_INDEX
  THEN LET x == index % BOARD_SIZE
           y == index \div BOARD_SIZE
       IN (IF x > 0 THEN <<index - 1>> ELSE <<>>)
          \o (IF x < 3 THEN <<index + 1>> ELSE <<>>)
          \o (IF y > 0 THEN <<index - 4>> ELSE <<>>)
          \o (IF y < 3 THEN <<index + 4>> ELSE <<>>)
          \o (IF index \in InnerCells THEN <<CENTER_INDEX>> ELSE <<>>)
  ELSE <<5, 6, 9, 10>>

----------------------------------------------------------------------------
(* Move generator *)

FlipMove(i) == [fromIndex |-> NoIndex, toIndex |-> i, isFlip |-> TRUE]
StepMove(s, d) == [fromIndex |-> s, toIndex |-> d, isFlip |-> FALSE]
NoMove == [fromIndex |-> NoIndex, toIndex |-> NoIndex, isFlip |-> FALSE]

\* the attack test of getValidMoves: three assignments in sequence
canAttackNoElephantRule(attacker, defender) ==
  LET a1 == attacker.rank >= defender.rank
  IN IF attacker.type = RAT /\ defender.type = ELEPHANT THEN TRUE ELSE a1

canAttack(attacker, defender) ==
  LET a1 == IF attacker.rank >= defender.rank THEN TRUE ELSE FALSE
      a2 == IF attacker.type = RAT /\ defender.type = ELEPHANT THEN TRUE ELSE a1
      a3 == IF attacker.type = ELEPHANT /\ defender.type = RAT THEN FALSE ELSE a2
  IN a3

\* body of neighbors.forEach: the moves pushed for one neighbor (none or one)
targetMovesNoRatGate(board, cell, targetIdx, playerColor) ==
  LET targetCell == board[targetIdx]
  IN IF targetIdx = CENTER_INDEX /\ targetCell.piece # NoPiece THEN <<>>
     ELSE IF ~targetCell.isRevealed THEN <<>>
     ELSE IF targetCell.piece = NoPiece THEN <<StepMove(cell.index, targetIdx)>>
     ELSE IF targetCell.piece.color # playerColor
          THEN IF canAttack(cell.piece, targetCell.piece)
               THEN <<StepMove(cell.index, targetIdx)>>
               ELSE <<>>
          ELSE <<>>

targetMovesNoSafeZone(board, cell, targetIdx, playerColor) ==
  LET targetCell == board[targetIdx]
  IN IF targetIdx = CENTER_INDEX /\ cell.piece.type # RAT THEN <<>>
     ELSE IF ~targetCell.isRevealed THEN <<>>
     ELSE IF targetCell.piece = NoPiece THEN <<StepMove(cell.index, targetIdx)>>
     ELSE IF targetCell.piece.color # playerColor
          THEN IF canAttack(cell.piece, targetCell.piece)
               THEN <<StepMove(cell.index, targetIdx)>>
               ELSE <<>>
          ELSE <<>>

targetMovesOntoHidden(board, cell, targetIdx, playerColor) ==
  LET targetCell == board[targetIdx]
  IN IF targetIdx = CENTER_INDEX /\ cell.piece.type # RAT THEN <<>>
     ELSE IF targetIdx = CENTER_INDEX /\ targetCell.piece # NoPiece THEN <<>>
     ELSE IF targetCell.piece = NoPiece THEN <<StepMove(cell.index, targetIdx)>>
     ELSE IF targetCell.piece.color # playerColor
          THEN IF canAttack(cell.piece, targetCell.piece)
               THEN <<StepMove(cell.index, targetIdx)>>
               ELSE <<>>
          ELSE <<>>

targetMoves(board, cell, targetIdx, playerColor) ==
  LET targetCell == board[targetIdx]
  IN IF targetIdx = CENTER_INDEX /\ cell.piece.type # RAT THEN <<>>
     ELSE IF targetIdx = CENTER_INDEX /\ targetCell.piece # NoPiece THEN <<>>
     ELSE IF ~targetCell.isRevealed THEN <<>>
     ELSE IF targetCell.piece = NoPiece THEN <<StepMove(cell.index, targetIdx)>>
     ELSE IF targetCell.piece.color # playerColor
          THEN IF canAttack(cell.piece, targetCell.piece)
               THEN <<StepMove(cell.index, targetIdx)>>
               ELSE <<>>
          ELSE <<>>

RECURSIVE neighborMoves(_, _, _, _)
neighborMoves(board, cell, ns, playerColor) ==
  IF ns = <<>> THEN <<>>
  ELSE targetMoves(board, cell, Head(ns), playerColor)
       \o neighborMoves(board, cell, Tail(ns), playerColor)

\* body of board.forEach: the moves pushed for one cell
cellMovesFlipOwnOnly(board, cell, playerColor) ==
  IF ~cell.isRevealed
  THEN IF cell.piece.color = playerColor THEN <<FlipMove(cell.index)>> ELSE <<>>
  ELSE IF cell.piece # NoPiece /\ cell.piece.color = playerColor
       THEN neighborMoves(board, cell, neighbors(cell.index), playerColor)
       ELSE <<>>

cellMoves(board, cell, playerColor) ==
  IF ~cell.isRevealed THEN <<FlipMove(cell.index)>>
  ELSE IF cell.piece # NoPiece /\ cell.piece.color = playerColor
       THEN neighborMoves(board, cell, neighbors(cell.index), playerColor)
       ELSE <<>>

RECURSIVE movesFrom(_, _, _)
movesFrom(board, i, playerColor) ==
  IF i >= TOTAL_CELLS THEN <<>>
  ELSE cellMoves(board, board[i], playerColor) \o movesFrom(board, i + 1, playerColor)

getValidMoves(board, playerColor) == movesFrom(board, 0, playerColor)

MoveSet(moves) == {moves[k] : k \in 1..Len(moves)}

\* the cells that clicks and the automated player's choices are drawn from
ActedCells == <<0, 1, 5, 16, 15, 4, 2, 6, 9, 10, 3, 7, 8, 11, 12, 13, 14>>

ClickCells == {ActedCells[k] : k \in 1..(IF NumCells < 17 THEN NumCells ELSE 17)}

----------------------------------------------------------------------------
(* Game state *)

Cell(index, piece, isRevealed) ==
  [index |-> index, piece |-> piece, isRevealed |-> isRevealed]

\* the shuffles explored: deck k as a permutation of INITIAL_DECK.  The first
\* puts a Red Elephant on 0, a Blue Rat on 1, Lions on 2 and 3, a Blue
\* Elephant on 4 and a Red Rat on 5; the others are rotations of it.
DeckOrder == <<0, 15, 2, 3, 1, 14, 13, 12, 4, 5, 6, 7, 8, 9, 10, 11>>

Deck(k) == [i \in 0..15 |-> INITIAL_DECK[DeckOrder[((i + 5 * (k - 1)) % 16) + 1]]]

DeckSet == {Deck(k) : k \in 1..NumDecks}

\* newBoard of initGame
NewBoardCenterHidden(deck) ==
  [index \in Indices |->
     IF index = CENTER_INDEX THEN Cell(index, NoPiece, FALSE)
     ELSE Cell(index, deck[index], FALSE)]

NewBoard(deck) ==
  [index \in Indices |->
     IF index = CENTER_INDEX THEN Cell(index, NoPiece, TRUE)
     ELSE Cell(index, deck[index], FALSE)]

StartLine == "start"

\* the state initGame sets
FreshState(deck) ==
  [board |-> NewBoard(deck), turn |-> RED, winner |-> NULL,
   redPlayer |-> NULL, bluePlayer |-> NULL, userColor |-> NULL,
   history |-> <<StartLine>>]

unrevealedCount(board) == Cardinality({i \in Indices : ~board[i].isRevealed})

colorCount(board, color) == Cardinality({i \in Indices : board[i].piece.color = color})

\* "Check Win Condition" of handleMove
winCheckAlwaysJudges(nextBoard) ==
  LET realRedCount == colorCount(nextBoard, RED)
      realBlueCount == colorCount(nextBoard, BLUE)
  IN IF realRedCount = 0 /\ realBlueCount = 0 THEN NULL
     ELSE IF realRedCount = 0 THEN BLUE
     ELSE IF realBlueCount = 0 THEN RED
     ELSE NULL

winCheckSwapped(nextBoard) ==
  IF unrevealedCount(nextBoard) = 0
  THEN LET realRedCount == colorCount(nextBoard, RED)
           realBlueCount == colorCount(nextBoard, BLUE)
       IN IF realRedCount = 0 /\ realBlueCount = 0 THEN NULL
          ELSE IF realRedCount = 0 THEN RED
          ELSE IF realBlueCount = 0 THEN BLUE
          ELSE NULL
  ELSE NULL

winCheckNoBlueTest(nextBoard) ==
  IF unrevealedCount(nextBoard) = 0
  THEN LET realRedCount == colorCount(nextBoard, RED)
           realBlueCount == colorCount(nextBoard, BLUE)
       IN IF realRedCount = 0 /\ realBlueCount = 0 THEN NULL
          ELSE IF realRedCount = 0 THEN BLUE
          ELSE RED
  ELSE NULL

winCheck(nextBoard) ==
  IF unrevealedCount(nextBoard) = 0
  THEN LET realRedCount == colorCount(nextBoard, RED)
           realBlueCount == colorCount(nextBoard, BLUE)
       IN IF realRedCount = 0 /\ realBlueCount = 0 THEN NULL
          ELSE IF realRedCount = 0 THEN BLUE
          ELSE IF realBlueCount = 0 THEN RED
          ELSE NULL
  ELSE NULL

\* "Assign Colors if not yet assigned": <<userColor, redPlayer, bluePlayer>>
assignColors(gs, mode, thinking, piece) ==
  IF gs.userColor = NULL
  THEN IF mode = "PVP" THEN <<piece.color, "HUMAN", "HUMAN">>
       ELSE IF ~thinking
            THEN IF piece.color = RED THEN <<RED, "HUMAN", "AI">>
                                      ELSE <<BLUE, "AI", "HUMAN">>
            ELSE IF piece.color = RED THEN <<BLUE, "AI", "HUMAN">>
                                      ELSE <<RED, "HUMAN", "AI">>
  ELSE <<gs.userColor, gs.redPlayer, gs.bluePlayer>>

moveBoardNoMutual(board, move) ==
  LET currentCell == board[move.fromIndex]
      targetCell == board[move.toIndex]
      b1 == [board EXCEPT ![move.toIndex] = [targetCell EXCEPT !.piece = currentCell.piece]]
  IN [b1 EXCEPT ![move.fromIndex] = [currentCell EXCEPT !.piece = NoPiece]]

\* the board handleMove builds for a move of the piece on fromIndex
moveBoard(board, move) ==
  LET currentCell == board[move.fromIndex]
      targetCell == board[move.toIndex]
      attacker == currentCell.piece
      defender == targetCell.piece
      b1 == [board EXCEPT ![move.toIndex] = [targetCell EXCEPT !.piece = attacker]]
      b2 == [b1 EXCEPT ![move.fromIndex] = [currentCell EXCEPT !.piece = NoPiece]]
  IN IF defender # NoPiece /\ attacker.rank = defender.rank
     THEN [b2 EXCEPT ![move.toIndex].piece = NoPiece]
     ELSE b2

moveLog(board, move) ==
  LET attacker == board[move.fromIndex].piece
      defender == board[move.toIndex].piece
  IN IF defender # NoPiece
     THEN IF attacker.rank = defender.rank THEN "both" ELSE "capture"
     ELSE "move"

winLog(logMessage, nextWinner) ==
  IF nextWinner # NULL THEN logMessage \o " win " \o nextWinner ELSE logMessage

Take(seq, n) == SubSeq(seq, 1, IF Len(seq) < n THEN Len(seq) ELSE n)

commitFlipKeepsTurn(prev, nextBoard, logMessage, colors) ==
  LET nextWinner == winCheck(nextBoard)
  IN [board |-> nextBoard,
      turn |-> IF logMessage = "flip" THEN prev.turn
               ELSE IF prev.turn = RED THEN BLUE ELSE RED,
      winner |-> nextWinner,
      redPlayer |-> colors[2],
      bluePlayer |-> colors[3],
      userColor |-> colors[1],
      history |-> Take(<<winLog(logMessage, nextWinner)>> \o prev.history, HISTORY_LIMIT)]

\* the updater passed to setGameState, applied to the current state prev
commitKeepsTurnOnWin(prev, nextBoard, logMessage, colors) ==
  LET nextWinner == winCheck(nextBoard)
  IN [board |-> nextBoard,
      turn |-> IF nextWinner # NULL THEN prev.turn
               ELSE IF prev.turn = RED THEN BLUE ELSE RED,
      winner |-> nextWinner,
      redPlayer |-> colors[2],
      bluePlayer |-> colors[3],
      userColor |-> colors[1],
      history |-> Take(<<winLog(logMessage, nextWinner)>> \o prev.history, HISTORY_LIMIT)]

commitLogAtEnd(prev, nextBoard, logMessage, colors) ==
  LET nextWinner == winCheck(nextBoard)
  IN [board |-> nextBoard,
      turn |-> IF prev.turn = RED THEN BLUE ELSE RED,
      winner |-> nextWinner,
      redPlayer |-> colors[2],
      bluePlayer |-> colors[3],
      userColor |-> colors[1],
      history |-> Take(prev.history \o <<winLog(logMessage, nextWinner)>>, HISTORY_LIMIT)]

commit(prev, nextBoard, logMessage, colors) ==
  LET nextWinner == winCheck(nextBoard)
  IN [board |-> nextBoard,
      turn |-> IF prev.turn = RED THEN BLUE ELSE RED,
      winner |-> nextWinner,
      redPlayer |-> colors[2],
      bluePlayer |-> colors[3],
      userColor |-> colors[1],
      history |-> Take(<<winLog(logMessage, nextWinner)>> \o prev.history, HISTORY_LIMIT)]

\* a render's closure: what a handler created in that render reads
Closure(gs, mode, thinking) ==
  [gameState |-> gs, gameMode |-> mode, aiThinking |-> thinking]

handleMoveNoWinnerGuard(cl, prev, move) ==
  LET gs == cl.gameState
  IN IF move.isFlip
     THEN LET piece == gs.board[move.toIndex].piece
              nextBoard == [gs.board EXCEPT ![move.toIndex].isRevealed = TRUE]
          IN [committed |-> TRUE,
              state |-> commit(prev, nextBoard, "flip",
                               assignColors(gs, cl.gameMode, cl.aiThinking, piece))]
     ELSE IF move.fromIndex = NoIndex \/ gs.board[move.fromIndex].piece = NoPiece
     THEN [committed |-> FALSE, state |-> prev]
     ELSE [committed |-> TRUE,
           state |-> commit(prev, moveBoard(gs.board, move), moveLog(gs.board, move),
                            <<gs.userColor, gs.redPlayer, gs.bluePlayer>>)]

\* handleMove run in closure cl while the current state is prev
handleMove(cl, prev, move) ==
  LET gs == cl.gameState
  IN IF gs.winner # NULL THEN [committed |-> FALSE, state |-> prev]
     ELSE IF move.isFlip
     THEN LET piece == gs.board[move.toIndex].piece
              nextBoard == [gs.board EXCEPT ![move.toIndex].isRevealed = TRUE]
          IN [committed |-> TRUE,
              state |-> commit(prev, nextBoard, "flip",
                               assignColors(gs, cl.gameMode, cl.aiThinking, piece))]
     ELSE IF move.fromIndex = NoIndex \/ gs.board[move.fromIndex].piece = NoPiece
     THEN [committed |-> FALSE, state |-> prev]
     ELSE [committed |-> TRUE,
           state |-> commit(prev, moveBoard(gs.board, move), moveLog(gs.board, move),
                            <<gs.userColor, gs.redPlayer, gs.bluePlayer>>)]

\* dependency list of the runAITurn effect
Deps(gs, mode) == <<gs.turn, gs.redPlayer, gs.bluePlayer, gs.winner, mode>>

\* the condition under which runAITurn requests a decision
isAITurn(gs, mode) ==
  /\ gs.winner = NULL
  /\ mode # "PVP"
  /\ \/ gs.turn = RED /\ gs.redPlayer = "AI"
     \/ gs.turn = BLUE /\ gs.bluePlayer = "AI"

----------------------------------------------------------------------------
(* Initial states *)

NoAct == [actor |-> "none", move |-> NoMove]

\* after mount: initGame has run, no controller is assigned, nothing is pending
Init ==
  /\ gameMode = "PVE"
  /\ \E deck \in DeckSet : gameState = FreshState(deck)
  /\ selectedIndex = NoIndex
  /\ isProcessing = FALSE
  /\ aiThinking = FALSE
  /\ genAI \in BOOLEAN
  /\ aiTasks = <<>>
  /\ effectDue = FALSE
  /\ applied = 0
  /\ lastAct = NoAct

\* Late-game positions of a PVE game, the human (Red) to move: every card but
\* at most the one on cell 15 has been flipped, and the captures have left a
\* revealed Red piece on place[1] and a revealed Blue piece on place[2].
HiddenKind(kind) == IF kind = CAT THEN DOG ELSE CAT

EndgameBoard(redKind, blueKind, place, hidden) ==
  [index \in Indices |->
     IF index = place[1] THEN Cell(index, Piece(RED, redKind), TRUE)
     ELSE IF index = place[2] THEN Cell(index, Piece(BLUE, blueKind), TRUE)
     ELSE IF index = 15 /\ hidden = RED
          THEN Cell(index, Piece(RED, HiddenKind(redKind)), FALSE)
     ELSE IF index = 15 /\ hidden = BLUE
          THEN Cell(index, Piece(BLUE, HiddenKind(blueKind)), FALSE)
     ELSE Cell(index, NoPiece, TRUE)]

\* the last Red piece, a Cat on 4, with a Blue Lion on 1 and a Blue Tiger on 5
CornerBoard ==
  [index \in Indices |->
     IF index = 4 THEN Cell(index, Piece(RED, CAT), TRUE)
     ELSE IF index = 1 THEN Cell(index, Piece(BLUE, LION), TRUE)
     ELSE IF index = 5 THEN Cell(index, Piece(BLUE, TIGER), TRUE)
     ELSE Cell(index, NoPiece, TRUE)]

\* every pair of kinds side by side on cells 0 and 1; a few pairs next to the
\* Center, on cells 5 and 1; the Cat near the corner
EndgameBoards ==
  {EndgameBoard(redKind, blueKind, <<0, 1>>, hidden) :
     redKind \in Kinds, blueKind \in Kinds, hidden \in {NULL, BLUE}}
  \cup
  {EndgameBoard(redKind, blueKind, <<5, 1>>, hidden) :
     redKind \in {RAT, DOG}, blueKind \in {RAT, CAT, ELEPHANT}, hidden \in {NULL, RED}}
  \cup {CornerBoard}

EarlierLines ==
  [k \in 1..(HISTORY_LIMIT - 1) |-> IF k = HISTORY_LIMIT - 1 THEN "oldest" ELSE "earlier"]

EndgameState(board) ==
  [board |-> board, turn |-> RED, winner |-> NULL,
   redPlayer |-> "HUMAN", bluePlayer |-> "AI", userColor |-> RED,
   history |-> EarlierLines]

InitEndgame ==
  /\ gameMode = "PVE"
  /\ \E board \in EndgameBoards : gameState = EndgameState(board)
  /\ selectedIndex = NoIndex
  /\ isProcessing = FALSE
  /\ aiThinking = FALSE
  /\ genAI \in BOOLEAN
  /\ aiTasks = <<>>
  /\ effectDue = FALSE
  /\ applied = 0
  /\ lastAct = NoAct

----------------------------------------------------------------------------
(* Actions *)

\* who makes a click: the starting user until colors are bound, then in PVE
\* the human, in PVP the owner of the active color
clickActor ==
  IF gameState.userColor = NULL \/ gameMode = "PVE" THEN "USER"
  ELSE IF gameState.turn = gameState.userColor THEN "USER" ELSE "OPPONENT"

\* a call of handleMove from closure cl by actor: the commit, and the render
\* that follows it
ApplyKeepsSelection(cl, move, actor) ==
  LET r == handleMove(cl, gameState, move)
  IN IF r.committed
     THEN /\ applied < MaxActions
          /\ gameState' = r.state
          /\ selectedIndex' = selectedIndex
          /\ applied' = applied + 1
          /\ lastAct' = [actor |-> actor, move |-> move]
          /\ effectDue' = (Deps(r.state, gameMode) # Deps(gameState, gameMode))
     ELSE UNCHANGED <<gameState, selectedIndex, applied, lastAct, effectDue>>

Apply(cl, move, actor) ==
  LET r == handleMove(cl, gameState, move)
  IN IF r.committed
     THEN /\ applied < MaxActions
          /\ gameState' = r.state
          /\ selectedIndex' = NoIndex
          /\ applied' = applied + 1
          /\ lastAct' = [actor |-> actor, move |-> move]
          /\ effectDue' = (Deps(r.state, gameMode) # Deps(gameState, gameMode))
     ELSE UNCHANGED <<gameState, selectedIndex, applied, lastAct, effectDue>>

\* handleCellClick up to the cell lookup: the click is accepted
clickAcceptedWhileBusy ==
  /\ gameState.winner = NULL
  /\ \/ gameMode # "PVE"
     \/ gameState.turn = RED /\ gameState.redPlayer # "AI"
     \/ gameState.turn = BLUE /\ gameState.bluePlayer # "AI"
     \/ gameState.redPlayer = NULL

clickAccepted ==
  /\ gameState.winner = NULL
  /\ ~isProcessing
  /\ ~aiThinking
  /\ \/ gameMode # "PVE"
     \/ gameState.turn = RED /\ gameState.redPlayer # "AI"
     \/ gameState.turn = BLUE /\ gameState.bluePlayer # "AI"
     \/ gameState.redPlayer = NULL

\* the move handleCellClick finds for (selectedIndex, index), or NoMove
findMoveUnchecked(index) == StepMove(selectedIndex, index)

findMove(index) ==
  LET validMoves == getValidMoves(gameState.board, gameState.turn)
      hits == {k \in 1..Len(validMoves) :
                 validMoves[k].fromIndex = selectedIndex /\ validMoves[k].toIndex = index}
  IN IF hits = {} THEN NoMove
     ELSE validMoves[CHOOSE k \in hits : \A j \in hits : k <= j]

\* handleCellClick(index): the click on cell index, and the render that
\* follows it
handleCellClickFlipsAnyway(index) ==
  LET cell == gameState.board[index]
  IN IF ~clickAccepted THEN UNCHANGED vars
     ELSE IF ~cell.isRevealed
     THEN /\ Apply(Closure(gameState, gameMode, aiThinking),
                   FlipMove(index), clickActor)
          /\ UNCHANGED <<gameMode, isProcessing, aiThinking, genAI, aiTasks>>
     ELSE IF selectedIndex = NoIndex
     THEN /\ selectedIndex' =
               IF cell.piece # NoPiece /\ cell.piece.color = gameState.turn
               THEN index ELSE NoIndex
          /\ UNCHANGED <<gameMode, gameState, isProcessing, aiThinking,
                         genAI, aiTasks, effectDue, applied, lastAct>>
     ELSE IF index = selectedIndex
     THEN /\ selectedIndex' = NoIndex
          /\ UNCHANGED <<gameMode, gameState, isProcessing, aiThinking,
                         genAI, aiTasks, effectDue, applied, lastAct>>
     ELSE IF findMove(index) # NoMove
     THEN /\ Apply(Closure(gameState, gameMode, aiThinking),
                   findMove(index), clickActor)
          /\ UNCHANGED <<gameMode, isProcessing, aiThinking, genAI, aiTasks>>
     ELSE /\ selectedIndex' =
               IF cell.piece # NoPiece /\ cell.piece.color = gameState.turn
               THEN index ELSE NoIndex
          /\ UNCHANGED <<gameMode, gameState, isProcessing, aiThinking,
                         genAI, aiTasks, effectDue, applied, lastAct>>

handleCellClick(index) ==
  LET cell == gameState.board[index]
  IN IF ~clickAccepted THEN UNCHANGED vars
     ELSE IF ~cell.isRevealed
     THEN IF selectedIndex # NoIndex
          THEN /\ selectedIndex' = NoIndex
               /\ UNCHANGED <<gameMode, gameState, isProcessing, aiThinking,
                              genAI, aiTasks, effectDue, applied, lastAct>>
          ELSE /\ Apply(Closure(gameState, gameMode, aiThinking),
                        FlipMove(index), clickActor)
               /\ UNCHANGED <<gameMode, isProcessing, aiThinking, genAI, aiTasks>>
     ELSE IF selectedIndex = NoIndex
     THEN /\ selectedIndex' =
               IF cell.piece # NoPiece /\ cell.piece.color = gameState.turn
               THEN index ELSE NoIndex
          /\ UNCHANGED <<gameMode, gameState, isProcessing, aiThinking,
                         genAI, aiTasks, effectDue, applied, lastAct>>
     ELSE IF index = selectedIndex
     THEN /\ selectedIndex' = NoIndex
          /\ UNCHANGED <<gameMode, gameState, isProcessing, aiThinking,
                         genAI, aiTasks, effectDue, applied, lastAct>>
     ELSE IF findMove(index) # NoMove
     THEN /\ Apply(Closure(gameState, gameMode, aiThinking),
                   findMove(index), clickActor)
          /\ UNCHANGED <<gameMode, isProcessing, aiThinking, genAI, aiTasks>>
     ELSE /\ selectedIndex' =
               IF cell.piece # NoPiece /\ cell.piece.color = gameState.turn
               THEN index ELSE NoIndex
          /\ UNCHANGED <<gameMode, gameState, isProcessing, aiThinking,
                         genAI, aiTasks, effectDue, applied, lastAct>>

\* a click on one of the acted cells, in a render whose effects have run
HandleCellClick ==
  /\ ~effectDue
  /\ \E index \in ClickCells : handleCellClick(index)

\* the runAITurn effect of a render whose dependencies changed, up to its
\* first await
RunAITurn ==
  /\ effectDue
  /\ effectDue' = FALSE
  /\ IF isAITurn(gameState, gameMode)
     THEN /\ aiThinking' = TRUE
          /\ isProcessing' = TRUE
          /\ aiTasks' = Append(aiTasks, Closure(gameState, gameMode, aiThinking))
     ELSE UNCHANGED <<aiThinking, isProcessing, aiTasks>>
  /\ UNCHANGED <<gameMode, gameState, selectedIndex, genAI, applied, lastAct>>

Remove(seq, k) == SubSeq(seq, 1, k - 1) \o SubSeq(seq, k + 1, Len(seq))

\* validMoves[x] for a fractional x: undefined
UndefinedMove == [fromIndex |-> NoIndex, toIndex |-> 0 - 2, isFlip |-> FALSE]

\* what the service can answer for n valid moves: a JSON number as moveId
\* (twice its value, so that halves are numbers too), a moveId that is not a
\* number, no text at all, or an error thrown by the request
AIResponses(n) ==
  {[kind |-> "number", twice |-> t] : t \in (0 - 2)..(2 * n + 1)}
  \cup {[kind |-> k, twice |-> 0] : k \in {"string", "empty", "error"}}

\* getAIMove: client is whether genAI is set, rnd the random index of the
\* fallback (1-based)
getAIMove(client, validMoves, response, rnd) ==
  IF ~client THEN NoMove
  ELSE IF Len(validMoves) = 0 THEN NoMove
  ELSE IF response.kind \in {"empty", "error"} THEN validMoves[rnd]
  ELSE IF /\ response.kind = "number"
          /\ response.twice >= 0
          /\ response.twice < 2 * Len(validMoves)
       THEN IF response.twice % 2 = 0
            THEN validMoves[(response.twice \div 2) + 1]
            ELSE UndefinedMove
       ELSE validMoves[rnd]

\* the random indices of the fallback for n valid moves
RandomIndices(n) == 1..(IF n = 0 THEN 1 ELSE n)

\* the results getAIMove can return to the runAITurn of closure cl (those on
\* the acted cells): null, one element of validMoves, or undefined
aiResults(cl) ==
  LET validMoves == getValidMoves(cl.gameState.board, cl.gameState.turn)
      results == {getAIMove(genAI, validMoves, response, rnd) :
                    response \in AIResponses(Len(validMoves)),
                    rnd \in RandomIndices(Len(validMoves))}
  IN {m \in results : m.toIndex \in ClickCells \/ m \in {NoMove, UndefinedMove}}

\* the rest of runAITurn: getAIMove answers, handleMove of the effect's render
\* applies the move, the two flags are reset.  handleMove throws on an
\* undefined move, which ends runAITurn before the flags are reset.
AIFinishFallsBack ==
  /\ ~effectDue
  /\ \E k \in 1..Len(aiTasks) :
       \E result \in aiResults(aiTasks[k]) :
         /\ IF result = UndefinedMove
            THEN UNCHANGED <<gameState, selectedIndex, applied, lastAct, effectDue,
                             isProcessing, aiThinking>>
            ELSE /\ IF result # NoMove
                    THEN Apply(aiTasks[k], result, "AI")
                    ELSE \E move \in MoveSet(getValidMoves(aiTasks[k].gameState.board,
                                                          aiTasks[k].gameState.turn))
                                     \cup {NoMove} :
                           IF move # NoMove /\ move.toIndex \in ClickCells
                           THEN Apply(aiTasks[k], move, "AI")
                           ELSE UNCHANGED <<gameState, selectedIndex, applied,
                                            lastAct, effectDue>>
                 /\ isProcessing' = FALSE
                 /\ aiThinking' = FALSE
         /\ aiTasks' = Remove(aiTasks, k)
         /\ UNCHANGED <<gameMode, genAI>>

AIFinish ==
  /\ ~effectDue
  /\ \E k \in 1..Len(aiTasks) :
       \E result \in aiResults(aiTasks[k]) :
         /\ IF result = UndefinedMove
            THEN UNCHANGED <<gameState, selectedIndex, applied, lastAct, effectDue,
                             isProcessing, aiThinking>>
            ELSE /\ IF result # NoMove
                    THEN Apply(aiTasks[k], result, "AI")
                    ELSE UNCHANGED <<gameState, selectedIndex, applied, lastAct, effectDue>>
                 /\ isProcessing' = FALSE
                 /\ aiThinking' = FALSE
         /\ aiTasks' = Remove(aiTasks, k)
         /\ UNCHANGED <<gameMode, genAI>>

\* the restart button
InitGame ==
  /\ ~effectDue
  /\ \E deck \in DeckSet :
       /\ gameState' = FreshState(deck)
       /\ effectDue' = (Deps(FreshState(deck), gameMode) # Deps(gameState, gameMode))
  /\ selectedIndex' = NoIndex
  /\ aiThinking' = FALSE
  /\ lastAct' = NoAct
  /\ UNCHANGED <<gameMode, isProcessing, genAI, aiTasks, applied>>

\* the mode button: setGameMode, then in the render that follows the initGame
\* effect and the runAITurn effect, which still reads the state of the game
\* that initGame replaces
ToggleGameMode ==
  /\ ~effectDue
  /\ LET mode == IF gameMode = "PVE" THEN "PVP" ELSE "PVE"
     IN /\ gameMode' = mode
        /\ \E deck \in DeckSet :
             /\ gameState' = FreshState(deck)
             /\ effectDue' = (Deps(FreshState(deck), mode) # Deps(gameState, mode))
        /\ selectedIndex' = NoIndex
        /\ lastAct' = NoAct
        /\ IF isAITurn(gameState, mode)
           THEN /\ aiThinking' = TRUE
                /\ isProcessing' = TRUE
                /\ aiTasks' = Append(aiTasks, Closure(gameState, mode, aiThinking))
           ELSE /\ aiThinking' = FALSE
                /\ UNCHANGED <<isProcessing, aiTasks>>
        /\ UNCHANGED <<genAI, applied>>

Next ==
  \/ HandleCellClick
  \/ RunAITurn
  \/ AIFinish
  \/ InitGame
  \/ ToggleGameMode

Spec == Init /\ [][Next]_vars

SpecEndgame == InitEndgame /\ [][Next]_vars

\* React runs the effect of a render once the render is committed, and the
\* timers and the request that runAITurn awaits settle: neither step is
\* postponed forever.  Clicks and buttons are the user's and may never come.
SpecFair == Spec /\ WF_vars(RunAITurn) /\ WF_vars(AIFinish)

----------------------------------------------------------------------------
(* Types *)

TypeOK ==
  /\ gameMode \in {"PVE", "PVP"}
  /\ gameState.turn \in PlayerColor
  /\ gameState.winner \in {RED, BLUE, DRAW, NULL}
  /\ selectedIndex \in Indices \cup {NoIndex}
  /\ genAI \in BOOLEAN
  /\ applied \in 0..MaxActions

----------------------------------------------------------------------------
(* Properties *)

board == gameState.board

ValidNow == MoveSet(getValidMoves(gameState.board, gameState.turn))

FreshStates == {FreshState(deck) : deck \in DeckSet}

\* C1: every action that changes the game state is a member of the legal
\* actions computed on the board and the active color current when it is
\* applied (a flip of an unrevealed cell, or a move in getValidMoves(board,
\* turn)), whether it comes from a click or from the automated player.
AppliedActionIsLegalNow ==
  [][applied' # applied => lastAct'.move \in ValidNow]_vars

\* C2: while any cell is unrevealed the winner is none.
NoWinnerWhileUnrevealed ==
  unrevealedCount(board) > 0 => gameState.winner = NULL

\* a capture has left Red without pieces while a card is still face down
WipedOutWhileUnrevealed ==
  /\ lastAct.actor # "none"
  /\ ~lastAct.move.isFlip
  /\ unrevealedCount(board) > 0
  /\ colorCount(board, RED) = 0
  /\ gameState.winner = NULL

\* C3: in every state with no unrevealed cell, no piece of one color and a
\* piece of the other, the winner is that other color: the action that leaves
\* the board so also sets the winner.
WinnerSetBySameAction ==
  \A c \in PlayerColor :
    (/\ unrevealedCount(board) = 0
     /\ colorCount(board, OtherColor(c)) = 0
     /\ colorCount(board, c) >= 1) => gameState.winner = c

\* the flip of the last unrevealed cell has ended the game
LastFlipWins ==
  /\ lastAct.move.isFlip
  /\ unrevealedCount(board) = 0
  /\ colorCount(board, RED) = 0
  /\ colorCount(board, BLUE) >= 1
  /\ gameState.winner = BLUE

\* C4: with no unrevealed cell and no piece of either color the winner is the
\* draw value.
DrawWhenBothWipedOut ==
  (/\ unrevealedCount(board) = 0
   /\ colorCount(board, RED) = 0
   /\ colorCount(board, BLUE) = 0) => gameState.winner = DRAW

\* C5: when the winner is a color, no cell is unrevealed, the other color has
\* no piece and the winner has one.
WinnerMeansOtherWipedOut ==
  \A c \in PlayerColor :
    gameState.winner = c =>
      /\ unrevealedCount(board) = 0
      /\ colorCount(board, OtherColor(c)) = 0
      /\ colorCount(board, c) >= 1

\* a capturing move has made Red the winner
RedWinsByCapture ==
  /\ lastAct.actor # "none"
  /\ ~lastAct.move.isFlip
  /\ gameState.winner = RED

\* the flips and moves that can be requested on the acted cells
Requests ==
  {FlipMove(i) : i \in ClickCells}
  \cup {StepMove(s, d) : s \in ClickCells, d \in ClickCells}

\* C6: once the winner is set, no flip or move request is committed, and the
\* game state changes only by initGame.
TerminalOnceWon ==
  /\ [](gameState.winner # NULL =>
          \A m \in Requests :
            ~handleMove(Closure(gameState, gameMode, aiThinking), gameState, m).committed)
  /\ [][gameState.winner # NULL =>
          (gameState' = gameState \/ gameState' \in FreshStates)]_vars

\* the game is won and the automated player's effect has run on the won state
WonAndSettled ==
  /\ gameState.winner # NULL
  /\ lastAct.actor # "none"
  /\ ~effectDue

\* C7: a committed flip or move changes the active color to the other color;
\* any other step leaves it alone or starts a new game with RED to move.
TurnAlternates ==
  [][/\ applied' # applied => gameState'.turn = OtherColor(gameState.turn)
     /\ applied' = applied =>
          \/ gameState'.turn = gameState.turn
          \/ gameState' \in FreshStates /\ gameState'.turn = RED]_vars

\* the automated player's flip has given the turn back
TurnBackAfterTwoFlips ==
  /\ applied = 2
  /\ lastAct.actor = "AI"
  /\ lastAct.move.isFlip
  /\ gameState.turn = gameState.userColor

\* C8: the participant who made a flip does not make the next committed
\* action of the game.
FlipConsumesTurn ==
  [][(applied' # applied /\ lastAct.actor # "none" /\ lastAct.move.isFlip)
       => lastAct'.actor # lastAct.actor]_vars

\* the rule of the capture test, stated on the kinds
RankRule(attacker, defender) ==
  \/ attacker.type = RAT /\ defender.type = ELEPHANT
  \/ /\ ~(attacker.type = ELEPHANT /\ defender.type = RAT)
     /\ ANIMAL_RANKS[attacker.type] >= ANIMAL_RANKS[defender.type]

\* C9: for revealed opposing pieces on neighboring cells other than the
\* Center, the move generator offers the capture iff the attacker's rank is at
\* least the defender's, except Rat on Elephant (offered) and Elephant on Rat
\* (not offered).
CaptureTestFollowsRanks ==
  LET occupied == {i \in Indices : board[i].isRevealed /\ board[i].piece # NoPiece}
  IN \A s \in occupied, d \in occupied \ {CENTER_INDEX} :
       (isAdjacent(s, d) /\ board[s].piece.color # board[d].piece.color)
       => (StepMove(s, d) \in MoveSet(getValidMoves(board, board[s].piece.color))
             <=> RankRule(board[s].piece, board[d].piece))

\* the Blue Rat on 1 has captured the Red Elephant on 0
RatTookElephant ==
  /\ lastAct.move = StepMove(1, 0)
  /\ board[0].piece = Piece(BLUE, RAT)
  /\ board[1].piece = NoPiece
  /\ gameState.history[1] \in {"capture", "capture win BLUE"}

\* the board the committing handleMove read: the current one for a click, the
\* captured one for the automated player
ReadBoard == IF lastAct'.actor = "AI" THEN aiTasks[1].gameState.board ELSE board

\* C10: a committed move leaves its source empty; its destination holds the
\* attacker, or nothing when attacker and defender have equal rank; both stay
\* revealed and no other cell changes.
MoveOutcome ==
  [][(applied' # applied /\ ~lastAct'.move.isFlip) =>
       LET m == lastAct'.move
           attacker == ReadBoard[m.fromIndex].piece
           defender == ReadBoard[m.toIndex].piece
           after == gameState'.board
       IN /\ attacker # NoPiece
          /\ after[m.fromIndex].piece = NoPiece
          /\ after[m.toIndex].piece =
               (IF defender # NoPiece /\ attacker.rank = defender.rank
                THEN NoPiece ELSE attacker)
          /\ after[m.fromIndex].isRevealed /\ after[m.toIndex].isRevealed
          /\ \A i \in Indices \ {m.fromIndex, m.toIndex} : after[i] = ReadBoard[i]]_vars

\* two pieces of equal rank have eliminated each other
MutualElimination ==
  /\ lastAct.actor # "none"
  /\ ~lastAct.move.isFlip
  /\ board[lastAct.move.fromIndex].piece = NoPiece
  /\ board[lastAct.move.toIndex].piece = NoPiece
  /\ gameState.history[1] \in {"both", "both win RED", "both win BLUE"}

\* the legal actions of a color on the current board
ValidFor(color) == MoveSet(getValidMoves(gameState.board, color))

\* C11: a non-Rat piece on 5, 6, 9 or 10 has no legal move to cell 16; while
\* cell 16 holds a piece nobody (a Rat included) has a legal move to it; a Rat
\* on 5, 6, 9 or 10 next to an empty Center has the move to 16.
CenterGate ==
  \A color \in PlayerColor :
    /\ \A m \in ValidFor(color) :
         m.toIndex = CENTER_INDEX =>
           /\ ~m.isFlip
           /\ m.fromIndex \in InnerCells
           /\ board[m.fromIndex].piece.type = RAT
           /\ board[CENTER_INDEX].piece = NoPiece
    /\ \A s \in InnerCells :
         (/\ board[s].isRevealed
          /\ board[s].piece.color = color
          /\ board[s].piece.type = RAT
          /\ board[CENTER_INDEX].piece = NoPiece)
         => StepMove(s, CENTER_INDEX) \in ValidFor(color)

\* a Rat holds the Center and the other side's Rat has moved next to it
RatNextToHeldCenter ==
  /\ board[CENTER_INDEX].piece = Piece(RED, RAT)
  /\ board[5].piece = Piece(BLUE, RAT)
  /\ lastAct.move = StepMove(1, 5)
  /\ StepMove(5, CENTER_INDEX) \notin ValidFor(BLUE)

\* C12: while cell 16 holds a piece, a committed action leaves the content of
\* cell 16 as it is, unless it is the move of that piece out of the Center; so
\* the occupant is never captured or eliminated and nothing enters.
SafeZoneHolds ==
  [][(applied' # applied /\ board[CENTER_INDEX].piece # NoPiece) =>
       \/ gameState'.board[CENTER_INDEX] = board[CENTER_INDEX]
       \/ /\ lastAct'.move.fromIndex = CENTER_INDEX
          /\ gameState'.board[CENTER_INDEX].piece = NoPiece
          /\ gameState'.board[lastAct'.move.toIndex].piece \in {board[CENTER_INDEX].piece, NoPiece}]_vars

\* the Red Rat entered the Center and is still there after the other side's
\* piece has moved next to it
RatStaysInCenter ==
  /\ applied >= 2
  /\ board[CENTER_INDEX].piece = Piece(RED, RAT)
  /\ lastAct.actor = "AI"
  /\ lastAct.move.toIndex = 5

\* the moves the rules allow color on board b, stated cell by cell
AllowedSteps(b, color) ==
  {StepMove(s, d) : <<s, d>> \in
     {p \in Indices \X Indices :
        LET from == b[p[1]]
            to == b[p[2]]
        IN /\ from.isRevealed
           /\ from.piece # NoPiece
           /\ from.piece.color = color
           /\ isAdjacent(p[1], p[2])
           /\ to.isRevealed
           /\ p[2] = CENTER_INDEX => (from.piece.type = RAT /\ to.piece = NoPiece)
           /\ \/ to.piece = NoPiece
              \/ /\ to.piece.color = OtherColor(color)
                 /\ RankRule(from.piece, to.piece)}}

\* C13: for each color the non-flip moves of getValidMoves are exactly the
\* pairs (s, d) with s revealed and holding a piece of that color, d a
\* neighbor of s, d revealed, d passing the Center gate, and d empty or holding
\* an opposing piece that the piece on s can capture; each is returned once.
StepsAreExactlyTheAllowed ==
  \A color \in PlayerColor :
    LET moves == getValidMoves(board, color)
        steps == {k \in 1..Len(moves) : ~moves[k].isFlip}
    IN /\ {moves[k] : k \in steps} = AllowedSteps(board, color)
       /\ \A j \in steps, k \in steps : moves[j] = moves[k] => j = k

\* the Blue Rat on 1 may capture the Red Elephant on 0 but may not step onto
\* the unrevealed cell 2
RatBetweenElephantAndHidden ==
  /\ board[0].isRevealed /\ board[0].piece = Piece(RED, ELEPHANT)
  /\ board[1].isRevealed /\ board[1].piece = Piece(BLUE, RAT)
  /\ ~board[2].isRevealed
  /\ StepMove(1, 0) \in ValidFor(BLUE)
  /\ StepMove(1, 2) \notin ValidFor(BLUE)
  /\ StepMove(0, 1) \notin ValidFor(RED)

\* C14: getValidMoves returns exactly one flip for each unrevealed cell and
\* none for a revealed cell, and the flips are the same for RED and for BLUE.
FlipsAreTheUnrevealed ==
  /\ \A color \in PlayerColor :
       LET moves == getValidMoves(board, color)
       IN /\ \A k \in 1..Len(moves) :
               moves[k].isFlip => moves[k] = FlipMove(moves[k].toIndex)
          /\ \A i \in Indices :
               Cardinality({k \in 1..Len(moves) : moves[k] = FlipMove(i)})
                 = (IF board[i].isRevealed THEN 0 ELSE 1)
  /\ {m \in ValidFor(RED) : m.isFlip} = {m \in ValidFor(BLUE) : m.isFlip}

\* after a flip: a revealed cell next to unrevealed cells that hide pieces of
\* both colors
SomeFlippedSomeNot ==
  /\ lastAct.move.isFlip
  /\ board[lastAct.move.toIndex].isRevealed
  /\ FlipMove(lastAct.move.toIndex) \notin ValidFor(gameState.turn)
  /\ \E i \in ClickCells, j \in ClickCells :
       /\ ~board[i].isRevealed /\ board[i].piece.color = RED
       /\ ~board[j].isRevealed /\ board[j].piece.color = BLUE
       /\ FlipMove(i) \in ValidFor(gameState.turn)
       /\ FlipMove(j) \in ValidFor(gameState.turn)

\* the revealed cells other than the selected one whose click asks for a move
\* that is not legal for the active color
IllegalTargets ==
  {index \in ClickCells \ {selectedIndex} :
     /\ board[index].isRevealed
     /\ StepMove(selectedIndex, index) \notin ValidNow}

\* C15: with a piece selected, a click on a target whose (source, destination)
\* pair is not a legal move of the active color finds no move, and while a
\* piece is selected the game state changes only by a legal move of that piece
\* or by a new game; a rejected request changes the selection at most.
IllegalRequestRejected ==
  /\ [](selectedIndex # NoIndex => \A index \in IllegalTargets : findMove(index) = NoMove)
  /\ [][(selectedIndex # NoIndex /\ gameState' # gameState) =>
          \/ /\ applied' # applied
             /\ lastAct'.move \in ValidNow
             /\ lastAct'.move.fromIndex = selectedIndex
          \/ gameState' \in FreshStates /\ applied' = applied]_vars

\* the human has selected the Red Elephant on 0 next to the Blue Rat on 1, which
\* it may not capture, and clicks are accepted
SelectedWithIllegalTarget ==
  /\ clickAccepted
  /\ selectedIndex = 0
  /\ board[0].piece.type = ELEPHANT
  /\ board[1].piece.type = RAT
  /\ 1 \in IllegalTargets

pieceCount(b) == Cardinality({i \in Indices : b[i].piece # NoPiece})

\* the pieces a committed action takes off the board it read: none for a flip
\* or a move to an empty cell, one for a capture, two for a mutual elimination
removedBy(b, move) ==
  IF move.isFlip \/ b[move.toIndex].piece = NoPiece THEN 0
  ELSE IF b[move.fromIndex].piece.rank = b[move.toIndex].piece.rank THEN 2
  ELSE 1

\* C16: every committed action lowers the number of pieces on the board by
\* exactly the number it removes (0 for a flip or a plain move, 1 for a
\* capture, 2 for a mutual elimination), so that pieces on the board plus
\* pieces removed stay 16, and it leaves no piece on two cells at once.
PieceConservation ==
  [][applied' # applied =>
       /\ pieceCount(gameState'.board)
            = pieceCount(board) - removedBy(ReadBoard, lastAct'.move)
       /\ \A i \in Indices, j \in Indices :
            (i # j /\ gameState'.board[i].piece # NoPiece)
            => gameState'.board[i].piece # gameState'.board[j].piece]_vars

\* a fresh game: 17 cells; cells 0..15 unrevealed, holding one piece of each
\* (color, kind) pair with the rank of its kind; cell 16 empty and revealed;
\* RED to move, no winner, no controller and no primary color
IsFreshGame(gs) ==
  /\ DOMAIN gs.board = 0..16
  /\ Cardinality(DOMAIN gs.board) = 17
  /\ \A i \in 0..15 :
       /\ gs.board[i].index = i
       /\ ~gs.board[i].isRevealed
       /\ gs.board[i].piece.color \in PlayerColor
       /\ gs.board[i].piece.type \in Kinds
       /\ gs.board[i].piece.rank = ANIMAL_RANKS[gs.board[i].piece.type]
  /\ \A color \in PlayerColor, kind \in Kinds :
       Cardinality({i \in 0..15 : /\ gs.board[i].piece.color = color
                                  /\ gs.board[i].piece.type = kind}) = 1
  /\ gs.board[16] = [index |-> 16, piece |-> NoPiece, isRevealed |-> TRUE]
  /\ gs.turn = RED
  /\ gs.winner = NULL
  /\ gs.redPlayer = NULL
  /\ gs.bluePlayer = NULL
  /\ gs.userColor = NULL

\* C17: the state initGame sets, which stays until the first committed action
\* of the game, is a fresh game with nothing selected.
InitGameIsFresh ==
  lastAct = NoAct => (IsFreshGame(gameState) /\ selectedIndex = NoIndex)

\* initGame has restarted a game in which actions had been committed
RestartedAfterPlay ==
  /\ lastAct = NoAct
  /\ applied > 0
  /\ gameState \in FreshStates

\* <<userColor, redPlayer, bluePlayer>> of a game state
Binding(gs) == <<gs.userColor, gs.redPlayer, gs.bluePlayer>>

\* C18: userColor is unassigned until the first flip of a game; the committed
\* action that finds it unassigned is a flip and sets it to the color of the
\* piece it reveals; once assigned, no committed action changes userColor or
\* the two controllers; any other step leaves them alone or starts a new game.
ColorBindingIsLatch ==
  [][/\ (applied' # applied /\ gameState.userColor = NULL) =>
          /\ lastAct'.move.isFlip
          /\ gameState'.userColor = board[lastAct'.move.toIndex].piece.color
     /\ (applied' # applied /\ gameState.userColor # NULL) =>
          Binding(gameState') = Binding(gameState)
     /\ applied' = applied =>
          \/ Binding(gameState') = Binding(gameState)
          \/ gameState' \in FreshStates]_vars

\* C19: while the winner is none the active color has at least one legal
\* action: getValidMoves(board, turn) is not empty.
ActiveColorCanAct ==
  gameState.winner = NULL => ValidNow # {}

\* C20: while a decision of the automated player is pending, a step changes
\* neither the board, the turn, the winner nor the selection, unless it is the
\* application of that decision.
PendingWindowQuiet ==
  [][aiTasks # <<>> =>
       \/ /\ gameState'.board = gameState.board
          /\ gameState'.turn = gameState.turn
          /\ gameState'.winner = gameState.winner
          /\ selectedIndex' = selectedIndex
       \/ /\ aiTasks' = <<>>
          /\ applied' # applied
          /\ lastAct'.actor = "AI"]_vars

\* C21: at most one decision of the automated player is pending at any time,
\* none is requested while one is pending, and while one is pending no
\* handleMove commits except the one that applies it.
OneActionInFlight ==
  /\ [](Len(aiTasks) <= 1)
  /\ [][aiTasks # <<>> =>
          /\ Len(aiTasks') <= Len(aiTasks)
          /\ applied' # applied => (lastAct'.actor = "AI" /\ aiTasks' = <<>>)]_vars

\* the game was restarted while a decision is pending
RestartWhilePending ==
  /\ aiTasks # <<>>
  /\ lastAct = NoAct
  /\ gameState \in FreshStates
  /\ ~effectDue
  /\ ~clickAccepted

\* getAIMove returns null to the runAITurn of closure cl
NullResult(cl) ==
  ~genAI \/ getValidMoves(cl.gameState.board, cl.gameState.turn) = <<>>

\* C22: when getAIMove returns null to runAITurn, no move is applied: the game
\* state (board, winner, history) is unchanged and the active color stays the
\* automated side's.
NoResultNoMove ==
  [][(aiTasks # <<>> /\ aiTasks' = <<>> /\ NullResult(aiTasks[1])) =>
       /\ applied' = applied
       /\ gameState' = gameState
       /\ gameState = aiTasks[1].gameState => isAITurn(gameState', gameMode')]_vars

\* without a client getAIMove has returned null: it is still the automated
\* side's turn, nothing is pending and the flags are reset
AutomatedSideIdle ==
  /\ ~genAI
  /\ isAITurn(gameState, gameMode)
  /\ aiTasks = <<>>
  /\ ~effectDue
  /\ ~isProcessing
  /\ ~aiThinking
  /\ lastAct.actor = "USER"

\* C23: a result of getAIMove other than null is an element of the validMoves
\* it was given: for a moveId that is an index of validMoves the move at that
\* index, for any other answer (out of range, not a number, not an integer, no
\* text, an error) some element of validMoves.
AIMoveFromSuppliedSet ==
  \A k \in 1..Len(aiTasks) :
    LET validMoves == getValidMoves(aiTasks[k].gameState.board, aiTasks[k].gameState.turn)
    IN \A response \in AIResponses(Len(validMoves)), rnd \in RandomIndices(Len(validMoves)) :
         LET result == getAIMove(genAI, validMoves, response, rnd)
         IN result # NoMove =>
              /\ result \in MoveSet(validMoves)
              /\ (/\ response.kind = "number"
                  /\ response.twice % 2 = 0
                  /\ response.twice \in 0..(2 * Len(validMoves) - 1))
                 => result = validMoves[(response.twice \div 2) + 1]

\* C24: a step either commits all effects of an action together (the board
\* changes, the turn passes to the other color, the winner is the one the new
\* board gives and the history gains its line) or none of them (the game
\* state is unchanged, or replaced by a new game): the board never changes
\* without the turn, nor the turn without the board.
ActionIsAtomic ==
  [][/\ applied' # applied =>
          /\ gameState'.board # gameState.board
          /\ gameState'.turn = OtherColor(gameState.turn)
          /\ gameState'.winner = winCheck(gameState'.board)
          /\ gameState'.history # gameState.history
     /\ applied' = applied =>
          \/ gameState' = gameState
          \/ gameState' \in FreshStates]_vars

\* the capture that ends the game has also passed the turn and logged the win
WinningCaptureCommitted ==
  /\ ~lastAct.move.isFlip
  /\ lastAct.actor = "AI"
  /\ gameState.winner = BLUE
  /\ gameState.turn = RED
  /\ gameState.history[1] = "capture win BLUE"

\* C25: isAdjacent is symmetric and irreflexive on 0..16: isAdjacent(a, b) =
\* isAdjacent(b, a) for all a and b, and isAdjacent(a, a) is false for every
\* a, the Center included.
AdjacencySymmetricIrreflexive ==
  /\ DOMAIN board = 0..16
  /\ \A a \in DOMAIN board :
       /\ ~isAdjacent(a, a)
       /\ \A b \in DOMAIN board : isAdjacent(a, b) = isAdjacent(b, a)

\* the Rat on cell 5 is selected: the render asks isAdjacent from cell 5 to
\* every other cell, the Center among them, and the move generator offers
\* the step over that link
RatNextToCenterSelected ==
  /\ selectedIndex = 5
  /\ board[5].piece.type = RAT
  /\ board[CENTER_INDEX].piece = NoPiece
  /\ isAdjacent(selectedIndex, CENTER_INDEX)
  /\ isAdjacent(CENTER_INDEX, selectedIndex)
  /\ StepMove(selectedIndex, CENTER_INDEX) \in ValidNow

\* the reference topology: with an endpoint on 16 the other is one of 5, 6, 9,
\* 10; otherwise the Manhattan distance on the 4x4 grid is exactly 1
RefAdjacent(a, b) ==
  IF a = 16 \/ b = 16
  THEN (a = 16 /\ b \in {5, 6, 9, 10}) \/ (b = 16 /\ a \in {5, 6, 9, 10})
  ELSE Abs((a \div 4) - (b \div 4)) + Abs((a % 4) - (b % 4)) = 1

\* C26: for every pair of cells isAdjacent equals the reference topology, and
\* so does the neighbor list built inside getValidMoves, which names each
\* neighbor once: no diagonals, no wraparound between row ends.
TopologyIsReference ==
  /\ DOMAIN board = 0..16
  /\ \A a \in DOMAIN board :
       LET ns == neighbors(a)
           listed == {ns[k] : k \in 1..Len(ns)}
           reference == {b \in DOMAIN board : RefAdjacent(a, b)}
       IN /\ {b \in DOMAIN board : isAdjacent(a, b)} = reference
          /\ listed = reference
          /\ Cardinality(listed) = Len(ns)

\* the Elephant on cell 4, the start of the second row, is selected: it may
\* step up to cell 0 and is not next to cell 3, the end of the first row
RowStartSelected ==
  /\ selectedIndex = 4
  /\ ~isAdjacent(selectedIndex, 3)
  /\ isAdjacent(selectedIndex, 0)
  /\ StepMove(4, 0) \in ValidNow
  /\ \A m \in ValidNow : m.fromIndex = 4 => m.toIndex \in {0, 5, 8}

\* C27: cell 16 is always revealed, no flip is offered for it or committed on
\* it, and it holds either no piece or a Rat.
CenterHoldsOnlyRat ==
  /\ board[CENTER_INDEX].isRevealed
  /\ board[CENTER_INDEX].piece = NoPiece \/ board[CENTER_INDEX].piece.type = RAT
  /\ \A color \in PlayerColor : FlipMove(CENTER_INDEX) \notin ValidFor(color)
  /\ lastAct.move # FlipMove(CENTER_INDEX)

\* the Red Rat has just entered the Center from cell 5, where a Dog could
\* have stood as well
RatEnteredCenter ==
  /\ lastAct.move = StepMove(5, CENTER_INDEX)
  /\ board[CENTER_INDEX] = Cell(CENTER_INDEX, Piece(RED, RAT), TRUE)
  /\ board[5].piece = NoPiece

\* C28: every committed action was chosen against the current game: the
\* handler that commits it read the current game state, so a decision requested
\* before a restart or a mode toggle is not applied to the game started after.
NoStaleDecisionApplied ==
  [][(applied' # applied /\ lastAct'.actor = "AI") =>
       aiTasks[1].gameState = gameState]_vars

\* the log line of a committed action: what it did on the board its handler
\* read, with the win announcement when it sets the winner
ExpectedLine ==
  LET base == IF lastAct'.move.isFlip THEN "flip" ELSE moveLog(ReadBoard, lastAct'.move)
  IN IF gameState'.winner = NULL THEN base
     ELSE base \o " win " \o gameState'.winner

\* C29: a committed action puts exactly one line, its own, in front of the
\* history and keeps the earlier lines in order, dropping the oldest beyond
\* 50; a step that commits nothing leaves the history alone or starts a new
\* game; the history never has more than 50 lines.
HistoryGrowsByOneLine ==
  /\ [](Len(gameState.history) <= 50)
  /\ [][/\ applied' # applied =>
             LET old == gameState.history
                 new == gameState'.history
             IN /\ new[1] = ExpectedLine
                /\ Len(new) = (IF Len(old) < 50 THEN Len(old) + 1 ELSE 50)
                /\ \A k \in 2..Len(new) : new[k] = old[k - 1]
        /\ applied' = applied =>
             \/ gameState'.history = gameState.history
             \/ gameState' \in FreshStates]_vars

\* the history is full and its oldest line has been dropped
OldestLineDropped ==
  /\ applied >= 2
  /\ Len(gameState.history) = 50
  /\ gameState.history[50] = "earlier"
  /\ gameState.history[3] = "earlier"
  /\ \A k \in 1..50 : gameState.history[k] # "oldest"

\* C30: every unrevealed cell holds a piece; a committed flip reveals a cell
\* that was unrevealed and holds a piece, and a committed move ends on a cell
\* that was revealed, so no move enters or captures on an unrevealed cell.
UnrevealedCellsHoldPieces ==
  /\ [](\A i \in Indices : ~board[i].isRevealed => board[i].piece # NoPiece)
  /\ [][applied' # applied =>
          LET target == ReadBoard[lastAct'.move.toIndex]
          IN IF lastAct'.move.isFlip
             THEN /\ ~target.isRevealed
                  /\ target.piece # NoPiece
                  /\ gameState'.board[lastAct'.move.toIndex].piece = target.piece
             ELSE target.isRevealed]_vars

\* a piece has moved away from a cell that has unrevealed neighbors
MovedBesideUnrevealed ==
  /\ lastAct.actor # "none"
  /\ ~lastAct.move.isFlip
  /\ \E i \in Indices :
       /\ isAdjacent(lastAct.move.fromIndex, i)
       /\ i # lastAct.move.toIndex
       /\ ~board[i].isRevealed
       /\ board[i].piece # NoPiece

\* C31: a committed action never turns a revealed cell face down; a committed
\* flip lowers the number of unrevealed cells by exactly one and a committed
\* move changes no cell's revealed flag; any other step leaves the flags alone
\* or is initGame starting a new game.
RevealIsMonotonic ==
  [][/\ applied' # applied =>
          /\ \A i \in Indices : board[i].isRevealed => gameState'.board[i].isRevealed
          /\ IF lastAct'.move.isFlip
             THEN unrevealedCount(gameState'.board) = unrevealedCount(board) - 1
             ELSE \A i \in Indices : gameState'.board[i].isRevealed = board[i].isRevealed
     /\ applied' = applied =>
          \/ \A i \in Indices : gameState'.board[i].isRevealed = board[i].isRevealed
          \/ gameState' \in FreshStates]_vars

\* C32: a committed flip changes only the revealed flag of its target cell:
\* every cell keeps its piece and every other cell its flag; a committed move
\* changes only the piece of its source and of its destination: every other
\* cell is unchanged and the two keep their flag.
ActionFrame ==
  [][applied' # applied =>
       LET m == lastAct'.move
           after == gameState'.board
       IN IF m.isFlip
          THEN /\ \A i \in Indices : after[i].piece = board[i].piece
               /\ \A i \in Indices \ {m.toIndex} : after[i].isRevealed = board[i].isRevealed
          ELSE /\ \A i \in Indices \ {m.fromIndex, m.toIndex} : after[i] = board[i]
               /\ \A i \in {m.fromIndex, m.toIndex} :
                    after[i].isRevealed = board[i].isRevealed]_vars

\* C33: redPlayer and bluePlayer are both unassigned until the first flip of a
\* game is committed and both assigned from then on; once assigned, in PVP
\* both are HUMAN, and in PVE one is HUMAN and the other AI, the color of HUMAN
\* being userColor.
ControllersFollowMode ==
  LET rp == gameState.redPlayer
      bp == gameState.bluePlayer
  IN /\ lastAct = NoAct => (rp = NULL /\ bp = NULL)
     /\ lastAct # NoAct => (rp # NULL /\ bp # NULL)
     /\ (rp # NULL \/ bp # NULL) =>
          IF gameMode = "PVP"
          THEN rp = "HUMAN" /\ bp = "HUMAN"
          ELSE \/ rp = "HUMAN" /\ bp = "AI" /\ gameState.userColor = RED
               \/ rp = "AI" /\ bp = "HUMAN" /\ gameState.userColor = BLUE

\* the render whose handleMove commits: the current one for a click, the one
\* of the effect for the automated player
ReadClosure ==
  IF lastAct'.actor = "AI" THEN aiTasks[1] ELSE Closure(gameState, gameMode, aiThinking)

\* handleMove of closure cl takes the "AI flipped first" assignment branch
aiFlippedFirst(cl, move) ==
  /\ move.isFlip
  /\ cl.gameState.userColor = NULL
  /\ cl.gameMode # "PVP"
  /\ cl.aiThinking

\* C34: the first committed action of a game is a flip, in PVE made by the
\* human; the automated player commits nothing while the controllers are
\* unassigned, and no committed action takes the "AI flipped first" branch.
FirstActionIsHumanFlip ==
  [][applied' # applied =>
       /\ lastAct = NoAct =>
            /\ lastAct'.move.isFlip
            /\ gameMode = "PVE" => lastAct'.actor = "USER"
       /\ lastAct'.actor = "AI" => gameState.redPlayer # NULL
       /\ ~aiFlippedFirst(ReadClosure, lastAct'.move)]_vars

\* C35: whenever a cell is selected it is revealed and holds a piece of the
\* active color; every committed action and every initGame leaves nothing
\* selected.
SelectionIsOwnRevealedPiece ==
  /\ [](selectedIndex # NoIndex =>
          /\ board[selectedIndex].isRevealed
          /\ board[selectedIndex].piece # NoPiece
          /\ board[selectedIndex].piece.color = gameState.turn)
  /\ [][(applied' # applied \/ gameState' # gameState) => selectedIndex' = NoIndex]_vars

\* after the automated player's reply the human has selected a piece of the
\* active color that has a legal move
OwnPieceSelectedAfterReply ==
  /\ selectedIndex # NoIndex
  /\ lastAct.actor = "AI"
  /\ clickAccepted
  /\ board[selectedIndex].piece.color = gameState.turn
  /\ \E m \in ValidNow : m.fromIndex = selectedIndex

\* isValidTarget of the render, for the cell drawn
isValidTargetOntoHidden(cell) ==
  IF /\ selectedIndex # NoIndex
     /\ cell.index # selectedIndex
     /\ isAdjacent(selectedIndex, cell.index)
  THEN LET fromCell == gameState.board[selectedIndex]
           c1 == IF cell.index = CENTER_INDEX /\ fromCell.piece.type # RAT THEN FALSE ELSE TRUE
           canEnter == IF cell.index = CENTER_INDEX /\ cell.piece # NoPiece THEN FALSE ELSE c1
           a1 == fromCell.piece.rank >= cell.piece.rank
           a2 == IF fromCell.piece.type = RAT /\ cell.piece.type = ELEPHANT THEN TRUE ELSE a1
           a3 == IF fromCell.piece.type = ELEPHANT /\ cell.piece.type = RAT THEN FALSE ELSE a2
       IN IF ~canEnter THEN FALSE
          ELSE IF cell.piece = NoPiece THEN TRUE
          ELSE IF cell.piece.color # gameState.turn THEN a3
          ELSE FALSE
  ELSE FALSE

isValidTarget(cell) ==
  IF /\ selectedIndex # NoIndex
     /\ cell.index # selectedIndex
     /\ isAdjacent(selectedIndex, cell.index)
  THEN LET fromCell == gameState.board[selectedIndex]
           c1 == IF cell.index = CENTER_INDEX /\ fromCell.piece.type # RAT THEN FALSE ELSE TRUE
           canEnter == IF cell.index = CENTER_INDEX /\ cell.piece # NoPiece THEN FALSE ELSE c1
           a1 == fromCell.piece.rank >= cell.piece.rank
           a2 == IF fromCell.piece.type = RAT /\ cell.piece.type = ELEPHANT THEN TRUE ELSE a1
           a3 == IF fromCell.piece.type = ELEPHANT /\ cell.piece.type = RAT THEN FALSE ELSE a2
       IN IF ~canEnter THEN FALSE
          ELSE IF ~cell.isRevealed THEN FALSE
          ELSE IF cell.piece = NoPiece THEN TRUE
          ELSE IF cell.piece.color # gameState.turn THEN a3
          ELSE FALSE
  ELSE FALSE

\* C36: with a cell s selected, the render highlights a cell c iff
\* getValidMoves(board, turn) contains the move from s to c; the click on a
\* highlighted cell is accepted, finds that move and commits it, and the click
\* on any other cell finds no move.
HighlightAgreesWithMoves ==
  selectedIndex # NoIndex =>
    \A c \in DOMAIN board :
      /\ isValidTarget(board[c]) <=> StepMove(selectedIndex, c) \in ValidNow
      /\ isValidTarget(board[c]) =>
           /\ clickAccepted
           /\ findMove(c) = StepMove(selectedIndex, c)
           /\ handleMove(Closure(gameState, gameMode, aiThinking),
                         gameState, findMove(c)).committed
      /\ ~isValidTarget(board[c]) => findMove(c) = NoMove

\* a piece is selected that has a highlighted neighbor and an unrevealed
\* neighbor, not highlighted, hiding an opposing piece it could capture
HighlightedAndNot ==
  /\ selectedIndex # NoIndex
  /\ \E c \in ClickCells, d \in ClickCells :
       /\ isAdjacent(selectedIndex, c)
       /\ isValidTarget(board[c])
       /\ isAdjacent(selectedIndex, d)
       /\ ~board[d].isRevealed
       /\ board[d].piece.color = OtherColor(gameState.turn)
       /\ canAttack(board[selectedIndex].piece, board[d].piece)
       /\ ~isValidTarget(board[d])

\* C37: in PVE, whenever the active color is the automated side's with no
\* winner and a legal action, eventually the automated player's action is
\* applied, the turn is the human's again and aiThinking and isProcessing are
\* false, unless a new game is started first.
AITurnProgress ==
  (isAITurn(gameState, gameMode) /\ ValidNow # {} /\ applied < MaxActions)
    ~> \/ /\ lastAct.actor = "AI"
          /\ gameState.turn = gameState.userColor
          /\ ~aiThinking
          /\ ~isProcessing
       \/ lastAct = NoAct

\* C38: an accepted click on an unrevealed cell while a piece is selected
\* only clears the selection: the game state (board, turn, history) is
\* unchanged and nothing is committed; the same click with nothing selected
\* commits the flip of that cell: the cell is revealed and the turn passes to
\* the other color.
HiddenClickClearsOrFlips ==
  [][\A index \in ClickCells :
       (/\ ~effectDue
        /\ clickAccepted
        /\ ~board[index].isRevealed
        /\ handleCellClick(index)) =>
         IF selectedIndex # NoIndex
         THEN /\ selectedIndex' = NoIndex
              /\ gameState' = gameState
              /\ applied' = applied
              /\ lastAct' = lastAct
         ELSE /\ applied' = applied + 1
              /\ lastAct'.move = FlipMove(index)
              /\ gameState'.board[index].isRevealed
              /\ gameState'.turn = OtherColor(gameState.turn)
              /\ gameState'.history # gameState.history
              /\ selectedIndex' = NoIndex]_vars

\* a piece is selected, clicks are accepted and an unrevealed cell next to it
\* can be clicked; a flip could still be committed
SelectedBesideUnrevealed ==
  /\ selectedIndex # NoIndex
  /\ clickAccepted
  /\ ~effectDue
  /\ applied < MaxActions
  /\ \E index \in ClickCells :
       /\ isAdjacent(selectedIndex, index)
       /\ ~board[index].isRevealed

====
